---------------------------- MODULE Spec2Model ----------------------------
(***************************************************************************)
(* Verification model of the split-expense ledger (core/split).            *)
(*                                                                         *)
(* Money is modelled in integer cents: every MoneyField / DecimalField of  *)
(* the models has decimal_places=2, so a stored amount is a whole number   *)
(* of cents.  Users are a fixed population (accounts.User rows); groups,   *)
(* expenses, splits and settlements are database rows with auto-increment  *)
(* primary keys.  Every view is one action; a request that fails its       *)
(* validation is an action that changes nothing but the response (last).   *)
(***************************************************************************)
EXTENDS Integers, Sequences, FiniteSets, TLC

\* ------------------------------------------------------------------ bounds
NumUsers == 3
MaxGroups == 1
MaxExpenses == 1
MaxSettlements == 1
MaxAmount == 1
MaxRefs == 1
MaxSplitId == 3
MaxForms == 2
MaxFormAmount == 2
MaxShares == 2

\* ------------------------------------------------------- program constants
CentsPerUnit == 100
MinExpenseCents == 1
MinSettlementCents == 1
ToleranceCents == 1
HundredPercent == 10000

Users == 1..NumUsers
NoGroup == 0

\* Amounts a request may carry, in cents: 0 (rejected by the validators),
\* the smallest amounts, and 100.00.
ExampleAmount == 100 * CentsPerUnit
Amounts == (1..MaxAmount) \cup {ExampleAmount}
AmountInputs == {0} \cup Amounts

PERSONAL == "personal"
GROUP == "group"
ExpenseType == {PERSONAL, GROUP}

EQUAL == "equal"
EXACT == "exact"
PERCENTAGE == "percentage"
SHARES == "shares"
SplitType == {EQUAL, EXACT, PERCENTAGE, SHARES}

HALF_EVEN == "half_even"
HALF_UP == "half_up"
RoundingModes == {HALF_EVEN, HALF_UP}
UNOBSERVED == "unobserved"

VARIABLES
    groups,       \* Seq of Group rows, index = pk
    expenses,     \* set of Expense rows
    splits,       \* set of ExpenseSplit rows
    settlements,  \* set of Settlement rows
    nextId,       \* auto-increment counters of expense / split / settlement
    rounding,     \* how the database rounds a tie to 2 places, once observed
    last,         \* the outcome of the last request
    inflight,     \* an expense_create request between two of its commits
    observed,     \* what the last concurrent read of a group returned
    formset       \* an ExpenseSplitFormSet and the outcome of its clean()

db == <<groups, expenses, splits, settlements, nextId>>
aux == <<inflight, observed, formset>>
vars == <<groups, expenses, splits, settlements, nextId, rounding, last,
          inflight, observed, formset>>

\* ----------------------------------------------------------------- helpers
RECURSIVE SumAmount(_)
SumAmount(rows) ==
    IF rows = {} THEN 0
    ELSE LET r == CHOOSE x \in rows : TRUE
         IN  r.amount + SumAmount(rows \ {r})

Abs(x) == IF x < 0 THEN -x ELSE x

\* A decimal num/den (cents) stored in a decimal_places=2 column.  A tie is
\* rounded to even by Django's format_number (sqlite, mysql) and away from
\* zero by a numeric(14,2) column (postgresql); the mode is a fact of the
\* deployment, fixed from the first tie on.
Quantize(num, den, mode) ==
    LET q == num \div den
        r == num % den
    IN  IF 2 * r < den THEN q
        ELSE IF 2 * r > den THEN q + 1
        ELSE IF mode = HALF_UP THEN q + 1
        ELSE IF q % 2 = 0 THEN q ELSE q + 1

IsTie(num, den) == 2 * (num % den) = den

RoundingChoices(num, den) ==
    IF rounding # UNOBSERVED THEN {rounding}
    ELSE IF IsTie(num, den) THEN RoundingModes
    ELSE {UNOBSERVED}

GroupIds == 1..Len(groups)
GroupExists(g) == g \in GroupIds
Members(g) == groups[g].members

Response(op, result, user, id) ==
    [op |-> op, result |-> result, user |-> user, id |-> id,
     payer |-> 0, payee |-> 0, members |-> {}, policy |-> "", refs |-> {}]

Idle == [stage |-> "idle"]
NoFormSet == [split_type |-> "", expense |-> 0, forms |-> <<>>, result |-> "none"]

InitDb ==
    /\ groups = <<>>
    /\ expenses = {}
    /\ splits = {}
    /\ settlements = {}
    /\ nextId = [expense |-> 1, split |-> 1, settlement |-> 1]
    /\ rounding = UNOBSERVED
    /\ last = Response("none", "ok", 0, 0)
    /\ inflight = Idle
    /\ observed = {}

Init == InitDb /\ formset = NoFormSet

\* ------------------------------------------------------------------ groups
\* GroupForm: members is required and its queryset excludes the requester.
GroupForm_is_valid(user, selected) ==
    /\ selected # {}
    /\ selected \subseteq Users \ {user}

\* GroupForm.save without the creator appended to the members.
GroupForm_save_selected_only(user, selected) ==
    [created_by |-> user, members |-> selected, is_active |-> TRUE]

\* GroupForm.save: the creator is appended to the selected members.
GroupForm_save(user, selected) ==
    [created_by |-> user, members |-> selected \cup {user}, is_active |-> TRUE]

GroupCreateView(user, selected) ==
    /\ Len(groups) < MaxGroups
    /\ IF GroupForm_is_valid(user, selected)
       THEN /\ groups' = Append(groups, GroupForm_save(user, selected))
            /\ last' = Response("group_create", "ok", user, Len(groups) + 1)
       ELSE /\ groups' = groups
            /\ last' = Response("group_create", "invalid", 0, 0)
    /\ UNCHANGED <<expenses, splits, settlements, nextId, rounding, inflight, observed, formset>>

\* GroupUpdateView / GroupDeleteView.get_queryset: only the creator, only
\* while the group is active; anything else is a 404.
Group_editable_by(user, g) ==
    /\ GroupExists(g)
    /\ groups[g].created_by = user
    /\ groups[g].is_active

GroupUpdateView(user, g) ==
    /\ IF ~Group_editable_by(user, g)
       THEN /\ groups' = groups
            /\ last' = Response("group_update", "not_found", 0, g)
       ELSE \E selected \in SUBSET Users :
            IF GroupForm_is_valid(user, selected)
            THEN /\ groups' = [groups EXCEPT ![g] = GroupForm_save(user, selected)]
                 /\ last' = Response("group_update", "ok", user, g)
            ELSE /\ groups' = groups
                 /\ last' = Response("group_update", "invalid", 0, g)
    /\ UNCHANGED <<expenses, splits, settlements, nextId, rounding, inflight, observed, formset>>

\* GroupDeleteView.delete: soft delete.
GroupDeleteView(user, g) ==
    /\ IF Group_editable_by(user, g)
       THEN /\ groups' = [groups EXCEPT ![g].is_active = FALSE]
            /\ last' = Response("group_delete", "ok", user, g)
       ELSE /\ groups' = groups
            /\ last' = Response("group_delete", "not_found", 0, g)
    /\ UNCHANGED <<expenses, splits, settlements, nextId, rounding, inflight, observed, formset>>

\* ---------------------------------------------------------------- expenses
\* ExpenseForm.__init__: the groups the requester may choose.
ExpenseForm_group_queryset(user) ==
    {g \in GroupIds : user \in Members(g) /\ groups[g].is_active}

\* ExpenseForm.clean without its check of PERSONAL expenses.
ExpenseForm_clean_group_optional(expense_type, group, paid_by) ==
    IF expense_type = GROUP /\ group = NoGroup THEN "group"
    ELSE IF expense_type = GROUP /\ group # NoGroup /\ paid_by \notin Members(group)
         THEN "paid_by"
    ELSE "ok"

\* ExpenseForm.clean: the field the ValidationError names, or "ok".
ExpenseForm_clean(expense_type, group, paid_by) ==
    IF expense_type = GROUP /\ group = NoGroup THEN "group"
    ELSE IF expense_type = PERSONAL /\ group # NoGroup THEN "group"
    ELSE IF expense_type = GROUP /\ group # NoGroup /\ paid_by \notin Members(group)
         THEN "paid_by"
    ELSE "ok"

\* The first field in error, or "ok": the amount field (min_value 0.01),
\* the group field (a choice of the queryset, or empty), then clean, which
\* sees no group when the choice was invalid.
ExpenseForm_errors(user, amount, expense_type, group, paid_by) ==
    LET cleaned_group ==
            IF group \in ExpenseForm_group_queryset(user) THEN group ELSE NoGroup
    IN  IF amount < MinExpenseCents THEN "amount"
        ELSE IF group # cleaned_group THEN "group"
        ELSE ExpenseForm_clean(expense_type, cleaned_group, paid_by)

ExpenseForm_is_valid(user, amount, expense_type, group, paid_by) ==
    ExpenseForm_errors(user, amount, expense_type, group, paid_by) = "ok"

\* ExpenseForm.save
ExpenseForm_save(id, user, amount, expense_type, group, paid_by) ==
    [id |-> id, amount |-> amount, expense_type |-> expense_type,
     user |-> user, group |-> group, paid_by |-> paid_by]

SplitsOf(rows, e) == {s \in rows : s.expense = e}

\* SimpleSplitForm: split_type is one of the choices; members is required
\* and its queryset is the group's members.
SimpleSplitForm_is_valid(group, split_type, selected) ==
    /\ split_type \in SplitType
    /\ selected # {}
    /\ selected \subseteq (IF group = NoGroup THEN {} ELSE Members(group))

\* expense_amount / num_members, as the amount column (2 decimals) holds it.
per_person(expense_amount, num_members, mode) ==
    Quantize(expense_amount, num_members, mode)

\* Position of a member in the queryset (ordered by pk).
Rank(m, selected) == Cardinality({x \in selected : x < m})

\* SimpleSplitForm.save without the delete of the existing splits.
SimpleSplitForm_save_keeping(expense, split_type, selected, mode) ==
    LET created ==
            IF split_type = EQUAL
            THEN {[id |-> nextId.split + Rank(m, selected),
                   expense |-> expense.id,
                   user |-> m,
                   split_type |-> split_type,
                   amount |-> per_person(expense.amount, Cardinality(selected), mode),
                   is_settled |-> FALSE] : m \in selected}
            ELSE {}
    IN  splits \cup created

\* SimpleSplitForm.save creating splits that are settled from the start.
SimpleSplitForm_save_settled(expense, split_type, selected, mode) ==
    LET kept == splits \ SplitsOf(splits, expense.id)
        created ==
            IF split_type = EQUAL
            THEN {[id |-> nextId.split + Rank(m, selected),
                   expense |-> expense.id,
                   user |-> m,
                   split_type |-> split_type,
                   amount |-> per_person(expense.amount, Cardinality(selected), mode),
                   is_settled |-> TRUE] : m \in selected}
            ELSE {}
    IN  kept \cup created

\* SimpleSplitForm.save: the rows of the splits table after the call.
SimpleSplitForm_save(expense, split_type, selected, mode) ==
    LET kept == splits \ SplitsOf(splits, expense.id)
        created ==
            IF split_type = EQUAL
            THEN {[id |-> nextId.split + Rank(m, selected),
                   expense |-> expense.id,
                   user |-> m,
                   split_type |-> split_type,
                   amount |-> per_person(expense.amount, Cardinality(selected), mode),
                   is_settled |-> FALSE] : m \in selected}
            ELSE {}
    IN  kept \cup created

SplitTypeInputs == SplitType \cup {""}
GroupInputs == 0..MaxGroups
ExpenseInputs == 1..MaxExpenses

\* ExpenseCreateView.form_valid: the expense is saved, then the splits.
ExpenseCreateView(user) ==
    /\ nextId.expense <= MaxExpenses
    /\ \E amount \in AmountInputs, expense_type \in ExpenseType,
          group \in GroupInputs, paid_by \in Users :
       IF ~ExpenseForm_is_valid(user, amount, expense_type, group, paid_by)
       THEN /\ UNCHANGED <<expenses, splits, nextId, rounding>>
            /\ last' = Response("expense_create",
                     ExpenseForm_errors(user, amount, expense_type, group, paid_by), 0, 0)
       ELSE LET expense == ExpenseForm_save(nextId.expense, user, amount,
                                            expense_type, group, paid_by)
            IN  /\ expenses' = expenses \cup {expense}
                /\ IF expense_type = GROUP
                   THEN \E split_type \in SplitTypeInputs, selected \in SUBSET Users :
                        IF SimpleSplitForm_is_valid(group, split_type, selected)
                        THEN /\ \E mode \in RoundingChoices(amount, Cardinality(selected)) :
                                   /\ splits' = SimpleSplitForm_save(expense, split_type,
                                                                     selected, mode)
                                   /\ rounding' = IF split_type = EQUAL THEN mode
                                                  ELSE rounding
                             /\ nextId' = [nextId EXCEPT
                                   !.expense = @ + 1,
                                   !.split = @ + Cardinality(splits' \ splits)]
                             /\ last' = [Response("expense_create", "ok", user, expense.id)
                                   EXCEPT !.members = selected, !.policy = split_type]
                        ELSE /\ UNCHANGED <<splits, rounding>>
                             /\ nextId' = [nextId EXCEPT !.expense = @ + 1]
                             /\ last' = Response("expense_create", "split_rejected",
                                                 user, expense.id)
                   ELSE /\ UNCHANGED <<splits, rounding>>
                        /\ nextId' = [nextId EXCEPT !.expense = @ + 1]
                        /\ last' = Response("expense_create", "ok", user, expense.id)
    /\ UNCHANGED <<groups, settlements, inflight, observed, formset>>

\* get_queryset of the expense views without the filter on the owner.
Expense_of_any_user(user, e) == {x \in expenses : x.id = e}

\* ExpenseUpdateView / ExpenseDeleteView.get_queryset: only the owner.
Expense_of(user, e) == {x \in expenses : x.id = e /\ x.user = user}

\* ExpenseUpdateView that drops the splits of the expense it updates.
ExpenseUpdateView_dropping_splits(user, e) ==
    /\ IF Expense_of(user, e) = {}
       THEN /\ UNCHANGED <<expenses, splits>>
            /\ last' = Response("expense_update", "not_found", 0, e)
       ELSE \E amount \in AmountInputs, expense_type \in ExpenseType,
               group \in GroupInputs, paid_by \in Users :
            IF ExpenseForm_is_valid(user, amount, expense_type, group, paid_by)
            THEN /\ expenses' = (expenses \ Expense_of(user, e)) \cup
                        {ExpenseForm_save(e, user, amount, expense_type, group, paid_by)}
                 /\ splits' = splits \ SplitsOf(splits, e)
                 /\ last' = Response("expense_update", "ok", user, e)
            ELSE /\ UNCHANGED <<expenses, splits>>
                 /\ last' = Response("expense_update",
                        ExpenseForm_errors(user, amount, expense_type, group, paid_by), 0, e)
    /\ UNCHANGED <<groups, settlements, nextId, rounding, inflight, observed, formset>>

\* ExpenseUpdateView: ExpenseForm on the instance; splits are not touched.
ExpenseUpdateView(user, e) ==
    /\ IF Expense_of(user, e) = {}
       THEN /\ expenses' = expenses
            /\ last' = Response("expense_update", "not_found", 0, e)
       ELSE \E amount \in AmountInputs, expense_type \in ExpenseType,
               group \in GroupInputs, paid_by \in Users :
            IF ExpenseForm_is_valid(user, amount, expense_type, group, paid_by)
            THEN /\ expenses' = (expenses \ Expense_of(user, e)) \cup
                        {ExpenseForm_save(e, user, amount, expense_type, group, paid_by)}
                 /\ last' = Response("expense_update", "ok", user, e)
            ELSE /\ expenses' = expenses
                 /\ last' = Response("expense_update",
                        ExpenseForm_errors(user, amount, expense_type, group, paid_by), 0, e)
    /\ UNCHANGED <<groups, splits, settlements, nextId, rounding, inflight, observed, formset>>

\* ExpenseDeleteView: the row and, by cascade, its splits.
ExpenseDeleteView(user, e) ==
    /\ IF Expense_of(user, e) = {}
       THEN /\ UNCHANGED <<expenses, splits>>
            /\ last' = Response("expense_delete", "not_found", 0, e)
       ELSE /\ expenses' = expenses \ Expense_of(user, e)
            /\ splits' = splits \ SplitsOf(splits, e)
            /\ last' = Response("expense_delete", "ok", user, e)
    /\ UNCHANGED <<groups, settlements, nextId, rounding, inflight, observed, formset>>

\* ------------------------------------------------------------- settlements
\* SettlementForm.clean without its payer/payee comparison.
SettlementForm_clean_permissive(paid_by, paid_to) == "ok"

\* SettlementForm.clean
SettlementForm_clean(paid_by, paid_to) ==
    IF paid_by # 0 /\ paid_to # 0 /\ paid_by = paid_to
    THEN "self_settlement"
    ELSE "ok"

\* SettlementForm with paid_by and paid_to chosen among all users.
SettlementForm_errors_any_user(g, paid_by, paid_to, amount) ==
    IF amount < MinSettlementCents THEN "amount"
    ELSE SettlementForm_clean(paid_by, paid_to)

\* SettlementForm: paid_by and paid_to are choices among the group's
\* members, amount has MinValueValidator(0.01); then clean, which sees only
\* the fields that passed (0 stands for a field missing from cleaned_data).
SettlementForm_errors(g, paid_by, paid_to, amount) ==
    LET cleaned_by == IF paid_by \in Members(g) THEN paid_by ELSE 0
        cleaned_to == IF paid_to \in Members(g) THEN paid_to ELSE 0
    IN  IF cleaned_by = 0 THEN "paid_by"
        ELSE IF cleaned_to = 0 THEN "paid_to"
        ELSE IF amount < MinSettlementCents THEN "amount"
        ELSE SettlementForm_clean(cleaned_by, cleaned_to)

SettlementForm_is_valid(g, paid_by, paid_to, amount) ==
    SettlementForm_errors(g, paid_by, paid_to, amount) = "ok"

\* SettlementForm.save: the form has no expense_splits field.
SettlementForm_save(id, g, paid_by, paid_to, amount) ==
    [id |-> id, group |-> g, paid_by |-> paid_by, paid_to |-> paid_to,
     amount |-> amount]

RefInputs == {r \in SUBSET {s.id : s \in splits} : Cardinality(r) <= MaxRefs}

\* SettlementCreateView: the group of the URL must have the requester as a
\* member (get_form_kwargs), else 404.
SettlementCreateView(user, g) ==
    /\ nextId.settlement <= MaxSettlements
    /\ IF ~(GroupExists(g) /\ user \in Members(g))
       THEN /\ UNCHANGED <<settlements, nextId>>
            /\ last' = Response("settle", "not_found", 0, g)
       ELSE \E paid_by \in Users, paid_to \in Users, amount \in 0..MaxAmount :
            IF SettlementForm_is_valid(g, paid_by, paid_to, amount)
            THEN /\ settlements' = settlements \cup
                        {SettlementForm_save(nextId.settlement, g, paid_by, paid_to, amount)}
                 /\ nextId' = [nextId EXCEPT !.settlement = @ + 1]
                 /\ \E refs \in RefInputs :
                       last' = [Response("settle", "ok", user, nextId.settlement)
                          EXCEPT !.payer = paid_by, !.payee = paid_to, !.refs = refs]
            ELSE /\ UNCHANGED <<settlements, nextId>>
                 /\ last' = Response("settle",
                        SettlementForm_errors(g, paid_by, paid_to, amount), 0, g)
    /\ UNCHANGED <<groups, expenses, splits, rounding, inflight, observed, formset>>

\* ---------------------------------------------------------------- balances
ExpenseRow(e) == CHOOSE x \in expenses : x.id = e

\* Expense.objects.filter(group=group, paid_by=member, expense_type=GROUP)
PaidRows(g, member) ==
    {e \in expenses : e.group = g /\ e.paid_by = member /\ e.expense_type = GROUP}

\* ExpenseSplit.objects.filter(expense__group=group, user=member)
OwedRows(g, member) ==
    {s \in splits : s.user = member /\ ExpenseRow(s.expense).group = g}

\* calculate_group_balances with the settlements of the group counted in:
\* what a member has paid to others adds to the balance, what a member has
\* received is taken from it.
calculate_group_balances_settled(g) ==
    [member \in Members(g) |->
        LET paid == SumAmount(PaidRows(g, member))
            owed == SumAmount(OwedRows(g, member))
            sent == SumAmount({t \in settlements : t.group = g /\ t.paid_by = member})
            received == SumAmount({t \in settlements : t.group = g /\ t.paid_to = member})
        IN  [paid |-> paid, owed |-> owed,
             balance |-> paid - owed + sent - received]]

\* calculate_group_balances with owed - paid as the balance.
calculate_group_balances_negated(g) ==
    [member \in Members(g) |->
        LET paid == SumAmount(PaidRows(g, member))
            owed == SumAmount(OwedRows(g, member))
        IN  [paid |-> paid, owed |-> owed, balance |-> owed - paid]]

\* GroupDetailView.calculate_group_balances: one entry per current member.
calculate_group_balances(g) ==
    [member \in Members(g) |->
        LET paid == SumAmount(PaidRows(g, member))
            owed == SumAmount(OwedRows(g, member))
        IN  [paid |-> paid, owed |-> owed, balance |-> paid - owed]]

\* calculate_user_balances over the archived groups as well.
calculate_user_balances_all_groups(user) ==
    LET user_groups == {g \in GroupIds : user \in Members(g)}
        paid(g) == SumAmount(PaidRows(g, user))
        owed(g) == SumAmount({s \in OwedRows(g, user) : ~s.is_settled})
    IN  {[group |-> g, balance |-> paid(g) - owed(g)] :
            g \in {x \in user_groups : paid(x) - owed(x) # 0}}

\* calculate_user_balances without its "if balance != 0" filter.
calculate_user_balances_unfiltered(user) ==
    LET user_groups == {g \in GroupIds : user \in Members(g) /\ groups[g].is_active}
        paid(g) == SumAmount(PaidRows(g, user))
        owed(g) == SumAmount({s \in OwedRows(g, user) : ~s.is_settled})
    IN  {[group |-> g, balance |-> paid(g) - owed(g)] : g \in user_groups}

\* DashboardView.calculate_user_balances: the entries of the list.
calculate_user_balances(user) ==
    LET user_groups == {g \in GroupIds : user \in Members(g) /\ groups[g].is_active}
        paid(g) == SumAmount(PaidRows(g, user))
        owed(g) == SumAmount({s \in OwedRows(g, user) : ~s.is_settled})
    IN  {[group |-> g, balance |-> paid(g) - owed(g)] :
            g \in {x \in user_groups : paid(x) - owed(x) # 0}}

NextLedger ==
    \/ \E u \in Users, sel \in SUBSET Users : GroupCreateView(u, sel)
    \/ \E u \in Users, g \in GroupInputs \ {0} : GroupUpdateView(u, g)
    \/ \E u \in Users, g \in GroupInputs \ {0} : GroupDeleteView(u, g)
    \/ \E u \in Users : ExpenseCreateView(u)
    \/ \E u \in Users, e \in ExpenseInputs : ExpenseUpdateView(u, e)
    \/ \E u \in Users, e \in ExpenseInputs : ExpenseDeleteView(u, e)

\* The group and expense views.  SettlementCreateView is left to SpecSettle:
\* it writes the settlements only, which no view of this specification reads.
Spec == Init /\ [][NextLedger]_vars

\* ------------------------------------------------------ settlement recording
\* The settlement view over the groups and the expenses as they are created.
NextGroups ==
    \/ \E u \in Users, sel \in SUBSET Users : GroupCreateView(u, sel)
    \/ \E u \in Users, g \in GroupInputs \ {0} : GroupUpdateView(u, g)
    \/ \E u \in Users, g \in GroupInputs \ {0} : GroupDeleteView(u, g)

NextSettle ==
    \/ NextGroups
    \/ \E u \in Users : ExpenseCreateView(u)
    \/ \E u \in Users, g \in GroupInputs \ {0} : SettlementCreateView(u, g)

SpecSettle == Init /\ [][NextSettle]_vars

\* ------------------------------------------------------------ reallocation
\* SimpleSplitForm(data, group=expense.group, expense=expense) used on an
\* expense that is already stored: is_valid(), then save().
SimpleSplitForm_allocate(e) ==
    /\ \E expense \in {x \in expenses : x.id = e} :
       \E split_type \in SplitTypeInputs, selected \in SUBSET Users :
          IF SimpleSplitForm_is_valid(expense.group, split_type, selected)
          THEN /\ nextId.split + Cardinality(selected) - 1 <= MaxSplitId
               /\ \E mode \in RoundingChoices(expense.amount, Cardinality(selected)) :
                     /\ splits' = SimpleSplitForm_save(expense, split_type, selected, mode)
                     /\ rounding' = IF split_type = EQUAL THEN mode ELSE rounding
               /\ nextId' = [nextId EXCEPT
                     !.split = @ + Cardinality(splits' \ splits)]
               /\ last' = [Response("allocate", "ok", 0, e)
                     EXCEPT !.members = selected, !.policy = split_type]
          ELSE /\ UNCHANGED <<splits, nextId, rounding>>
               /\ last' = Response("allocate", "invalid", 0, e)
    /\ UNCHANGED <<groups, expenses, settlements, inflight, observed, formset>>

\* ExpenseUpdateView is not part of this specification: it leaves the
\* allocations alone.
NextAlloc ==
    \/ NextGroups
    \/ \E u \in Users : ExpenseCreateView(u)
    \/ \E u \in Users, e \in ExpenseInputs : ExpenseDeleteView(u, e)
    \/ \E e \in ExpenseInputs : SimpleSplitForm_allocate(e)

SpecAlloc == Init /\ [][NextAlloc]_vars

\* ------------------------------------------------ concurrent expense_create
\* No view opens a transaction and ATOMIC_REQUESTS is not set, so every ORM
\* write of ExpenseCreateView.form_valid commits on its own: the expense row,
\* the delete of the old splits, then one insert per member.

\* The users that have a split of the expense once the request is done.
WrittenAtCompletion(req) ==
    IF /\ SimpleSplitForm_is_valid(req.expense.group, req.split_type, req.selected)
       /\ req.split_type = EQUAL
    THEN req.selected ELSE {}

\* super().form_valid(form): the form is validated and the expense committed.
Conc_form_save(user) ==
    /\ inflight.stage = "idle"
    /\ nextId.expense <= MaxExpenses
    /\ \E amount \in AmountInputs, expense_type \in ExpenseType,
          group \in GroupInputs, paid_by \in Users :
       IF ~ExpenseForm_is_valid(user, amount, expense_type, group, paid_by)
       THEN /\ UNCHANGED <<expenses, nextId, inflight>>
            /\ last' = Response("expense_create",
                     ExpenseForm_errors(user, amount, expense_type, group, paid_by), 0, 0)
       ELSE LET expense == ExpenseForm_save(nextId.expense, user, amount,
                                            expense_type, group, paid_by)
            IN  /\ expenses' = expenses \cup {expense}
                /\ nextId' = [nextId EXCEPT !.expense = @ + 1]
                /\ IF expense_type = GROUP
                   THEN /\ \E split_type \in SplitTypeInputs, selected \in SUBSET Users :
                              inflight' = [stage |-> "saved", user |-> user,
                                           expense |-> expense,
                                           split_type |-> split_type,
                                           selected |-> selected]
                        /\ last' = last
                   ELSE /\ inflight' = Idle
                        /\ last' = Response("expense_create", "ok", user, expense.id)
    /\ UNCHANGED <<groups, splits, settlements, rounding, observed, formset>>

\* split_form.is_valid(), and the first statements of save() up to the loop:
\* the old splits are deleted and per_person is computed.
Conc_split_delete ==
    /\ inflight.stage = "saved"
    /\ IF SimpleSplitForm_is_valid(inflight.expense.group, inflight.split_type,
                                   inflight.selected)
       THEN /\ splits' = splits \ SplitsOf(splits, inflight.expense.id)
            /\ \E mode \in RoundingChoices(inflight.expense.amount,
                                           Cardinality(inflight.selected)) :
                 /\ inflight' = [stage |-> "splitting", user |-> inflight.user,
                       expense |-> inflight.expense,
                       split_type |-> inflight.split_type,
                       selected |-> inflight.selected,
                       todo |-> WrittenAtCompletion(inflight),
                       per_person |-> per_person(inflight.expense.amount,
                                                 Cardinality(inflight.selected), mode)]
                 /\ rounding' = IF inflight.split_type = EQUAL THEN mode ELSE rounding
            /\ last' = last
       ELSE /\ UNCHANGED <<splits, rounding>>
            /\ inflight' = Idle
            /\ last' = Response("expense_create", "split_rejected",
                                inflight.user, inflight.expense.id)
    /\ UNCHANGED <<groups, expenses, settlements, nextId, observed, formset>>

\* One pass of "for member in members": one split is inserted and committed.
Conc_split_create ==
    /\ inflight.stage = "splitting"
    /\ inflight.todo # {}
    /\ LET member == CHOOSE m \in inflight.todo : \A x \in inflight.todo : m <= x
       IN  /\ splits' = splits \cup
                  {[id |-> nextId.split, expense |-> inflight.expense.id,
                    user |-> member, split_type |-> inflight.split_type,
                    amount |-> inflight.per_person, is_settled |-> FALSE]}
           /\ nextId' = [nextId EXCEPT !.split = @ + 1]
           /\ inflight' = [inflight EXCEPT !.todo = @ \ {member}]
    /\ UNCHANGED <<groups, expenses, settlements, rounding, last, observed, formset>>

\* The loop is over: the response is sent.
Conc_done ==
    /\ inflight.stage = "splitting"
    /\ inflight.todo = {}
    /\ inflight' = Idle
    /\ last' = [Response("expense_create", "ok", inflight.user, inflight.expense.id)
          EXCEPT !.members = inflight.selected, !.policy = inflight.split_type]
    /\ UNCHANGED <<groups, expenses, splits, settlements, nextId, rounding,
                   observed, formset>>

\* GroupDetailView of another request: the GROUP expenses of the group, each
\* with the users its splits name.
GroupDetailView_read(user, g) ==
    /\ GroupExists(g) /\ user \in Members(g) /\ groups[g].is_active
    /\ observed' = {[expense |-> e.id,
                     users |-> {s.user : s \in SplitsOf(splits, e.id)}] :
                       e \in {x \in expenses : x.group = g /\ x.expense_type = GROUP}}
    /\ UNCHANGED <<groups, expenses, splits, settlements, nextId, rounding, last,
                   inflight, formset>>

NextConc ==
    \/ \E u \in Users, sel \in SUBSET Users :
          inflight.stage = "idle" /\ GroupCreateView(u, sel)
    \/ \E u \in Users : Conc_form_save(u)
    \/ Conc_split_delete
    \/ Conc_split_create
    \/ Conc_done
    \/ \E u \in Users, g \in GroupInputs \ {0} : GroupDetailView_read(u, g)

SpecConc == Init /\ [][NextConc]_vars

\* ------------------------------------------------------ ExpenseSplitFormSet
\* The cleaned_data of one ExpenseSplitForm of the formset, amounts in cents
\* and percentages in hundredths of a percent (0 = the field is empty).
\* The field the split type reads is filled in, the others are empty.
HalfPercent == HundredPercent \div 2

FormValues(split_type) ==
    IF split_type = EXACT THEN 0..MaxFormAmount
    ELSE IF split_type = PERCENTAGE
         THEN {0, HalfPercent - 1, HalfPercent, HalfPercent + 1}
    ELSE IF split_type = SHARES THEN 1..MaxShares
    ELSE {0}

FormRows(split_type) ==
    {[user |-> u,
      amount |-> IF split_type = EXACT THEN v ELSE 0,
      percentage |-> IF split_type = PERCENTAGE THEN v ELSE 0,
      shares |-> IF split_type = SHARES THEN v ELSE 0,
      DELETE |-> d] : u \in Users, v \in FormValues(split_type), d \in BOOLEAN}

FormSetInputs ==
    UNION {{[split_type |-> t, expense |-> x, forms |-> f, result |-> "none"] :
               x \in 0..MaxFormAmount,
               f \in UNION {[1..n -> FormRows(t)] : n \in 0..MaxForms}} :
           t \in SplitType}

RECURSIVE SumField(_, _)
SumField(forms, field) ==
    IF forms = <<>> THEN 0
    ELSE (IF field = "amount" THEN Head(forms).amount
          ELSE IF field = "percentage" THEN Head(forms).percentage
          ELSE Head(forms).shares) + SumField(Tail(forms), field)

\* The forms the loop of clean looks at.
LiveForms(forms) == SelectSeq(forms, LAMBDA f : ~f.DELETE)

HasDuplicateUser(forms) ==
    \E i, j \in 1..Len(forms) : i < j /\ forms[i].user = forms[j].user

\* ExpenseSplitFormSet.clean with ">=" for ">" in the EXACT comparison.
ExpenseSplitFormSet_clean_strict(split_type, expense, forms) ==
    LET live == LiveForms(forms)
    IN  IF HasDuplicateUser(live) THEN "duplicate"
        ELSE IF expense = 0 THEN "ok"
        ELSE IF split_type = EXACT
                /\ Abs(SumField(live, "amount") - expense) >= ToleranceCents
             THEN "amount"
        ELSE IF split_type = PERCENTAGE
                /\ Abs(SumField(live, "percentage") - HundredPercent) > ToleranceCents
             THEN "percentage"
        ELSE "ok"

\* ExpenseSplitFormSet.clean with ">=" for ">" in the PERCENTAGE comparison.
ExpenseSplitFormSet_clean_strict_percentage(split_type, expense, forms) ==
    LET live == LiveForms(forms)
    IN  IF HasDuplicateUser(live) THEN "duplicate"
        ELSE IF expense = 0 THEN "ok"
        ELSE IF split_type = EXACT
                /\ Abs(SumField(live, "amount") - expense) > ToleranceCents
             THEN "amount"
        ELSE IF split_type = PERCENTAGE
                /\ Abs(SumField(live, "percentage") - HundredPercent) >= ToleranceCents
             THEN "percentage"
        ELSE "ok"

\* ExpenseSplitFormSet.clean: the ValidationError it raises, or "ok".
\* expense = 0 stands for a formset built without an expense.
ExpenseSplitFormSet_clean(split_type, expense, forms) ==
    LET live == LiveForms(forms)
    IN  IF HasDuplicateUser(live) THEN "duplicate"
        ELSE IF expense = 0 THEN "ok"
        ELSE IF split_type = EXACT
                /\ Abs(SumField(live, "amount") - expense) > ToleranceCents
             THEN "amount"
        ELSE IF split_type = PERCENTAGE
                /\ Abs(SumField(live, "percentage") - HundredPercent) > ToleranceCents
             THEN "percentage"
        ELSE "ok"

\* formset.is_valid() on forms that are valid one by one.
ExpenseSplitFormSet_is_valid ==
    /\ formset.result = "none"
    /\ formset' = [formset EXCEPT !.result =
          ExpenseSplitFormSet_clean(formset.split_type, formset.expense, formset.forms)]
    /\ UNCHANGED <<groups, expenses, splits, settlements, nextId, rounding, last,
                   inflight, observed>>

InitFormSet == InitDb /\ formset \in FormSetInputs

SpecFormSet == InitFormSet /\ [][ExpenseSplitFormSet_is_valid]_vars

\* ------------------------------------------------- the two split-set forms
\* A split set reaches the program through SimpleSplitForm (members of an
\* expense) or through ExpenseSplitFormSet (one form per user).
InitSplitSets == InitDb /\ formset \in {NoFormSet} \cup FormSetInputs

NextSplitSets ==
    \/ formset = NoFormSet /\ NextAlloc
    \/ formset # NoFormSet /\ ExpenseSplitFormSet_is_valid

SpecSplitSets == InitSplitSets /\ [][NextSplitSets]_vars

\* ================================================================== claims
GroupExpenses == {e \in expenses : e.expense_type = GROUP}
AllocatedTo(e) == SumAmount(SplitsOf(splits, e))

RECURSIVE SumBalance(_, _)
SumBalance(balances, members) ==
    IF members = {} THEN 0
    ELSE LET m == CHOOSE x \in members : TRUE
         IN  balances[m].balance + SumBalance(balances, members \ {m})

\* C1: in every reachable state the allocations of every GROUP expense sum
\* to the expense's amount within 0.01, whatever policy allocated it.
C1_AllocationsReconcile ==
    \A e \in GroupExpenses : Abs(AllocatedTo(e.id) - e.amount) <= ToleranceCents

\* C2: an EQUAL allocation among n participants stores n amounts whose sum
\* is the expense amount exactly (100.00 among 3 never gives 3 x 33.33).
C2_EqualSplitExact ==
    (last.op = "expense_create" /\ last.result = "ok" /\ last.policy = EQUAL) =>
        /\ Cardinality(SplitsOf(splits, last.id)) = Cardinality(last.members)
        /\ AllocatedTo(last.id) = ExpenseRow(last.id).amount

\* C3: for any group all of whose GROUP expenses reconcile, the balances
\* calculate_group_balances returns sum to 0.00 within 0.01.
GroupReconciles(g) ==
    \A e \in GroupExpenses : e.group = g => AllocatedTo(e.id) = e.amount

C3_GroupBalancesSumToZero ==
    \A g \in GroupIds : GroupReconciles(g) =>
        Abs(SumBalance(calculate_group_balances(g), Members(g))) <= ToleranceCents

\* C4 as stated: calculate_user_balances(u) is empty whenever u has no open
\* allocation in any group, whatever u has paid.
OpenSplitsOf(u) == {s \in splits : s.user = u /\ ~s.is_settled}

C4_EmptyWithoutOpenAllocations ==
    \A u \in Users : OpenSplitsOf(u) = {} => calculate_user_balances(u) = {}

\* C4 amended: calculate_user_balances(u) is empty whenever u has no open
\* allocation in any group and has paid no GROUP expense of an active group
\* u is a member of.
PaidNothing(u) ==
    \A g \in GroupIds :
        (u \in Members(g) /\ groups[g].is_active) => PaidRows(g, u) = {}

C4_EmptyWithoutOpenAllocationsAndPayments ==
    \A u \in Users :
        (OpenSplitsOf(u) = {} /\ PaidNothing(u)) => calculate_user_balances(u) = {}

\* A member of an active group that has an allocated expense, who neither
\* paid it nor takes part in its split.
C4_Witness ==
    \E u \in Users, g \in GroupIds :
        /\ u \in Members(g) /\ groups[g].is_active
        /\ \E e \in GroupExpenses : e.group = g /\ SplitsOf(splits, e.id) # {}
        /\ OpenSplitsOf(u) = {} /\ PaidNothing(u)
        /\ calculate_user_balances(u) = {}

\* C5: a settlement whose payer and payee are the same user is never
\* recorded; the attempt is rejected and stores nothing.
C5_SelfSettlementFails ==
    [][/\ \A s \in settlements' \ settlements : s.paid_by # s.paid_to
       /\ (last'.op = "settle" /\ last'.result = "self_settlement")
             => settlements' = settlements]_vars

C5_Witness ==
    /\ last.op = "settle" /\ last.result = "self_settlement"
    /\ settlements = {}

\* C6: a successful allocation of an expense that has allocations replaces
\* them: no old allocation is left, there is exactly one new allocation per
\* selected participant, and the new set sums to the expense amount.
C6_ReallocationReplaces ==
    [][(/\ last'.op = "allocate" /\ last'.result = "ok"
        /\ SplitsOf(splits, last'.id) # {})
       => LET old == SplitsOf(splits, last'.id)
              new == SplitsOf(splits', last'.id)
          IN  /\ {s.id : s \in old} \cap {s.id : s \in splits'} = {}
              /\ {s.user : s \in new} = last'.members
              /\ Cardinality(new) = Cardinality(last'.members)
              /\ Abs(SumAmount(new) - (CHOOSE x \in expenses' : x.id = last'.id).amount)
                    <= ToleranceCents]_vars

\* C7: a rejected allocation writes nothing: when the split form of an
\* expense_create request is rejected, no expense and no allocation is stored.
C7_RejectedAllocationWritesNothing ==
    [][(last'.op = "expense_create" /\ last'.result = "split_rejected")
          => (expenses' = expenses /\ splits' = splits)]_vars

\* C8: a concurrent read sees every GROUP expense either not at all or with
\* all the allocations its expense_create request writes.
C8_ReaderSeesWholeAllocationSets ==
    [][(observed' # observed /\ inflight.stage # "idle")
       => \A o \in observed' :
             o.expense = inflight.expense.id => o.users = WrittenAtCompletion(inflight)]_vars

\* C9: the allocations a recorded settlement refers to are closed by it, so
\* an OUTSTANDING read no longer counts them.
C9_SettlementClosesAllocations ==
    (last.op = "settle" /\ last.result = "ok") =>
        \A s \in splits : s.id \in last.refs => s.is_settled

\* C10: with an expense and distinct users, EXACT validation rejects the
\* formset exactly when the sum of the amounts differs from the expense
\* amount by more than 0.01; a difference of 0.00 or 0.01 is accepted.
ExactDifference ==
    Abs(SumField(LiveForms(formset.forms), "amount") - formset.expense)

C10_ExactRejectsBeyondTolerance ==
    (/\ formset.result # "none" /\ formset.split_type = EXACT
     /\ formset.expense # 0 /\ ~HasDuplicateUser(LiveForms(formset.forms)))
    => /\ (formset.result = "amount") <=> (ExactDifference > ToleranceCents)
       /\ (formset.result = "ok") <=> (ExactDifference <= ToleranceCents)

\* Two amounts that miss the expense amount by 0.02 were rejected.
C10_Witness ==
    /\ formset.result = "amount" /\ formset.split_type = EXACT
    /\ Len(LiveForms(formset.forms)) = 2
    /\ ~HasDuplicateUser(LiveForms(formset.forms))
    /\ ExactDifference = ToleranceCents + 1

\* C11: with an expense and distinct users, PERCENTAGE validation rejects the
\* formset, with the error about the percentages, exactly when the sum of the
\* percentages differs from 100.00 by more than 0.01 (99.98, 100.02); sums of
\* 99.99, 100.00 and 100.01 are accepted.
PercentageDifference ==
    Abs(SumField(LiveForms(formset.forms), "percentage") - HundredPercent)

C12_SettlementPartiesAreMembers ==
    [][/\ \A s \in settlements' \ settlements :
             /\ s.paid_by \in Members(s.group)
             /\ s.paid_to \in Members(s.group)
             /\ s.amount > 0
       /\ (last'.op = "settle" /\ last'.result \in {"paid_by", "paid_to", "amount"})
             => settlements' = settlements]_vars

\* A settlement was recorded in a group that some user is not a member of.
C12_Witness ==
    /\ last.op = "settle" /\ last.result = "ok"
    /\ \E s \in settlements :
          /\ s.id = last.id
          /\ Members(s.group) # Users
          /\ {s.paid_by, s.paid_to} \subseteq Members(s.group)

\* C13: an expense has type GROUP if and only if its group is set: creation
\* and update never store a GROUP expense without a group or a PERSONAL
\* expense with one.
C13_GroupTypeIffGroupSet ==
    \A e \in expenses : (e.expense_type = GROUP) <=> (e.group # NoGroup)

\* An update was accepted and a GROUP expense is stored.
C13_Witness ==
    /\ last.op = "expense_update" /\ last.result = "ok"
    /\ \E e \in expenses : e.id = last.id /\ e.expense_type = GROUP /\ e.group # NoGroup

\* C14: in every reachable state, also after the creator has edited the
\* members of the group, the payer of every GROUP expense is a current member
\* of the expense's group.
C14_PayerIsCurrentMember ==
    \A e \in GroupExpenses :
        e.group # NoGroup => e.paid_by \in Members(e.group)

\* C15: after any group creation or edit every group has a non-empty member
\* set that contains its creator, and the creator of a group never changes.
C15_CreatorStaysMember ==
    [][\A g \in 1..Len(groups') :
          /\ groups'[g].members # {}
          /\ groups'[g].created_by \in groups'[g].members
          /\ g <= Len(groups) => groups'[g].created_by = groups[g].created_by]_vars

\* The creator has edited the members of a group.
C15_Witness ==
    /\ last.op = "group_update" /\ last.result = "ok"
    /\ groups[last.id].created_by = last.user
    /\ last.user \in Members(last.id)

\* C16: a group that is not active takes part in no operation: no expense,
\* allocation or settlement is stored for it and no balance result lists it.
ArchivedGroups == {g \in GroupIds : ~groups[g].is_active}

C16_ArchivedGroupIsExcluded ==
    [][/\ \A e \in expenses' \ expenses : e.group \notin ArchivedGroups
       /\ \A s \in splits' \ splits :
             \A e \in expenses' : e.id = s.expense => e.group \notin ArchivedGroups
       /\ \A s \in settlements' \ settlements : s.group \notin ArchivedGroups
       /\ \A u \in Users : \A b \in calculate_user_balances(u) :
             b.group \notin ArchivedGroups]_vars

\* The sum of the amounts of the rows with ids 1..n.
RECURSIVE TotalUpTo(_, _)
TotalUpTo(rows, n) ==
    IF n = 0 THEN 0
    ELSE (IF \E r \in rows : r.id = n
          THEN (CHOOSE r \in rows : r.id = n).amount ELSE 0) + TotalUpTo(rows, n - 1)

\* paid(m): the GROUP expenses of the group whose payer is m.
PaidIn(g, m) ==
    TotalUpTo({e \in GroupExpenses : e.group = g /\ e.paid_by = m}, nextId.expense - 1)

\* The allocations of m whose expense belongs to the group, open or closed.
AllocationsIn(g, m) ==
    {s \in splits : s.user = m /\ \E e \in expenses : e.id = s.expense /\ e.group = g}

\* C17: calculate_group_balances returns one triple per current member m:
\* paid(m) is the sum of the group's GROUP expenses paid by m, owed(m) the
\* sum of all the group's allocations of m, and balance(m) = paid(m) - owed(m).
C17_GroupBalanceTriples ==
    \A g \in GroupIds :
        LET b == calculate_group_balances(g)
        IN  /\ DOMAIN b = Members(g)
            /\ \A m \in Members(g) :
                  /\ b[m].paid = PaidIn(g, m)
                  /\ b[m].owed = TotalUpTo(AllocationsIn(g, m), nextId.split - 1)
                  /\ b[m].balance = b[m].paid - b[m].owed

\* A group with a member it owes and a member who owes it.
C17_Witness ==
    \E g \in GroupIds : \E m1, m2 \in Members(g) :
        /\ calculate_group_balances(g)[m1].balance > 0
        /\ calculate_group_balances(g)[m2].balance < 0

\* C18: calculate_user_balances(u) has exactly one entry for each active
\* group of u in which paid(u) minus u's open allocations is not 0, with that
\* value as the balance, and no entry for any other group.
OutstandingIn(g, u) ==
    PaidIn(g, u)
      - TotalUpTo({s \in AllocationsIn(g, u) : ~s.is_settled}, nextId.split - 1)

C18_UserBalanceEntries ==
    \A u \in Users :
        LET result == calculate_user_balances(u)
            listed == {g \in GroupIds : /\ groups[g].is_active
                                        /\ u \in Members(g)
                                        /\ OutstandingIn(g, u) # 0}
        IN  /\ {b.group : b \in result} = listed
            /\ Cardinality(result) = Cardinality(listed)
            /\ \A b \in result : b.balance = OutstandingIn(b.group, u)

\* One member of an active group is listed, another has paid and owes the
\* same amount and is not.
C18_Witness ==
    \E g \in GroupIds : \E u1, u2 \in Members(g) :
        /\ groups[g].is_active
        /\ calculate_user_balances(u1) # {}
        /\ PaidRows(g, u2) # {} /\ calculate_user_balances(u2) = {}

\* C19: there is at most one allocation per (expense, user) pair:
\* SimpleSplitForm.save never stores two allocations of one expense for one
\* user, and a formset that names a user twice is rejected.
C19_OneAllocationPerUser ==
    /\ \A s1, s2 \in splits :
          (s1.expense = s2.expense /\ s1.user = s2.user) => s1 = s2
    /\ (formset.result # "none" /\ HasDuplicateUser(LiveForms(formset.forms)))
          => formset.result = "duplicate"

\* An expense that had allocations was allocated again.
C19_Witness ==
    /\ last.op = "allocate" /\ last.result = "ok" /\ last.policy = EQUAL
    /\ splits # {}
    /\ nextId.split - 1 > Cardinality(splits)

\* C20: no operation closes an allocation: every allocation is open, so for
\* every user and group the owed amount over the open allocations is the
\* owed amount over all allocations.
C20_NoAllocationIsEverClosed ==
    /\ \A s \in splits : ~s.is_settled
    /\ \A u \in Users, g \in GroupIds :
          SumAmount({s \in OwedRows(g, u) : ~s.is_settled}) = SumAmount(OwedRows(g, u))

\* A settlement was recorded in a group that has allocations.
C20_Witness ==
    /\ last.op = "settle" /\ last.result = "ok"
    /\ \E t \in settlements : \E u \in Users : OwedRows(t.group, u) # {}

\* C21: recording a settlement changes only the settlements: the expenses
\* and the allocations, closed flags included, stay as they are, and so does
\* every result of calculate_group_balances and calculate_user_balances.
C21_SettlementChangesOnlySettlements ==
    [][(last'.op = "settle" /\ last'.result = "ok")
       => /\ settlements' # settlements
          /\ expenses' = expenses /\ splits' = splits /\ groups' = groups
          /\ \A g \in GroupIds :
                calculate_group_balances(g)' = calculate_group_balances(g)
          /\ \A u \in Users :
                calculate_user_balances(u)' = calculate_user_balances(u)]_vars

\* A settlement was recorded between two members whose balances are not 0.
C21_Witness ==
    /\ last.op = "settle" /\ last.result = "ok"
    /\ \E t \in settlements :
          /\ t.id = last.id
          /\ calculate_group_balances(t.group)[t.paid_by].balance < 0
          /\ calculate_group_balances(t.group)[t.paid_to].balance > 0

\* C22: an update of an expense leaves the stored allocations alone: none is
\* created, deleted or computed again, whatever field changes.
C22_UpdateKeepsAllocations ==
    [][(last'.op = "expense_update") => splits' = splits]_vars

\* An expense was updated to an amount its allocations do not sum to.
C22_Witness ==
    /\ last.op = "expense_update" /\ last.result = "ok"
    /\ SplitsOf(splits, last.id) # {}
    /\ \E e \in expenses : e.id = last.id /\ AllocatedTo(e.id) # e.amount

\* C23: an expense is changed or deleted only by a request of its owner, a
\* group is edited or archived only by a request of its creator and only
\* while it is active; the request of any other user changes nothing.
C23_OnlyOwnersChange ==
    [][/\ \A x \in expenses \ expenses' : last'.user = x.user
       /\ \A s \in splits \ splits' :
             \A x \in expenses : x.id = s.expense => last'.user = x.user
       /\ \A g \in GroupIds :
             groups'[g] # groups[g]
                => (last'.user = groups[g].created_by /\ groups[g].is_active)
       /\ (last'.result = "not_found")
             => (expenses' = expenses /\ splits' = splits /\ groups' = groups)]_vars

\* A user who does not own the stored expense asked to update it.
C23_Witness ==
    /\ last.op = "expense_update" /\ last.result = "not_found"
    /\ \E x \in expenses : x.id = last.id
====
